---- MODULE Spec2Model ----
(***************************************************************************)
(* Delivery path of the change-data-capture relay:                         *)
(*   - DestinationEnum::Multi fan-out      (src/src/destination_enum.rs)   *)
(*   - SnowflakeDestination streaming sink (src/src/snowflake/destination.rs) *)
(*   - DlqStore dead-letter queue          (src/src/dlq/store.rs)          *)
(* Each subsystem has its own specification over the shared variables.     *)
(***************************************************************************)
EXTENDS Integers, Sequences, FiniteSets, TLC

\* ------------------------------------------------------------------ bounds
\* number of children in the Multi destination's list
NChildren == 3
\* calls made on the streaming sink in one behaviour
MaxCalls == 2
\* catalog failures, remote errors and empty tokens in one behaviour
MaxAnomalies == 2
\* longest event list handed to write_events
MaxEvents == 2
\* longest row list handed to write_table_rows
MaxRows == 1
\* push calls made on the dead-letter store in one behaviour
MaxPushes == 3
\* pop_batch calls in one behaviour
MaxPops == 2
\* most events in one pushed batch
MaxBatch == 2
\* largest limit handed to pop_batch
MaxLimit == 2
\* failing durable counter writes in one behaviour
MaxWriteFailures == 1
\* process restarts in one behaviour
MaxRestarts == 1
\* most cells in a projected row
MaxCells == 2
\* most column names in a resolved column list
MaxColumns == 2

\* ------------------------------------------------------------- variables
VARIABLES
    \* --- Multi fan-out (one call on a DestinationEnum::Multi) ---
    mpc,          \* position of the calling future: "idle", "spawn", "join", "returned"
    mop,          \* operation of the call: "none" or one of MultiOps
    handles,      \* the handles vector: children spawned so far, in submission order
    joined,       \* number of handles the join loop has consumed
    task,         \* task[c]: state of child c's unit of work: "unspawned", "spawned"
                  \* (queued on the runtime, not yet polled), "running", or its outcome
    invoked,      \* invoked[c]: how many times child c's operation was started
    applied,      \* applied[c]: how many times child c's operation took effect
    finishOrder,  \* children in the order their units finished (completion order)
    mresult,      \* what the call returned
    \* --- SnowflakeDestination (one instance and its clones) ---
    spc,          \* spc[p]: position of caller p inside its call
    scall,        \* scall[p]: the call p is in: kind, number and argument
    groups,       \* groups[p]: events_by_table still to process (table -> events)
    cur,          \* cur[p]: table of the running per-table section (NoTable: none)
    tname,        \* tname[p]: table_name resolved for cur[p]
    cols,         \* cols[p]: column_names resolved for cur[p]
    sentTok,      \* sentTok[p]: token.clone() carried by p's in-flight insert_rows
    sresult,      \* sresult[n]: what the n-th call on the sink returned ("running": not yet)
    table_cache,  \* HashMap<TableId, String>
    column_cache, \* HashMap<TableId, Vec<String>>
    current_token,\* HashMap<TableId, String>
    locks,        \* holder of each tokio Mutex (NoProc: free)
    log,          \* completed remote calls (open_channel / insert_rows), in order
    issued,       \* number of non-empty tokens the remote API has issued
    anomalies,    \* catalog failures, remote errors and empty tokens so far
    \* --- DlqStore (one store and its clones, over one fjall database) ---
    queues,       \* HashMap<(i32, String), VecDeque<DlqEntry>>, memory only
    metadata_ks,  \* the dlq_metadata keyspace: key string -> value string
    npushed,      \* npushed[k]: events handed to non-empty pushes for key k
    delivered,    \* delivered[k]: events returned by pop_batch for key k, in order
    lost,         \* lost[k]: events removed from memory without being returned
    last,         \* the call made last on the store, its arguments and its result
    dlqCalls,     \* pushes, pops, failed counter writes and restarts so far
    \* --- row_to_json_object (pure projection of one row) ---
    prow,         \* row.values of the call
    pcolumns,     \* column_names of the call
    poperation,   \* operation of the call
    pnow,         \* what chrono::Utc::now() gives during the call
    pobj          \* the returned JSON object (no key: not called yet)

multiVars == <<mpc, mop, handles, joined, task, invoked, applied, finishOrder, mresult>>

sinkVars == <<spc, scall, groups, cur, tname, cols, sentTok, sresult,
              table_cache, column_cache, current_token, locks, log, issued,
              anomalies>>

dlqVars == <<queues, metadata_ks, npushed, delivered, lost, last, dlqCalls>>

projVars == <<prow, pcolumns, poperation, pnow, pobj>>

vars == <<multiVars, sinkVars, dlqVars, projVars>>

\* ------------------------------------------------------------------------
\* DestinationEnum::Multi
\* ------------------------------------------------------------------------
Children == 1..NChildren

MultiOps == {"truncate_table", "write_table_rows", "write_events"}

\* outcome of a child's unit of work: Ok(()), Err(e), or a panic (JoinError)
Outcomes == {"ok", "err", "panic"}

Finished(c) == task[c] \in Outcomes

NoResult == [kind |-> "none", child |-> 0]
OkResult == [kind |-> "ok", child |-> 0]
\* the error returned by child c itself (res?)
ChildError(c) == [kind |-> "err", child |-> c]
\* (ErrorKind::Unknown, "Join Error", e.to_string()) for child c's handle
JoinError(c) == [kind |-> "join", child |-> c]

InitMulti ==
    /\ mpc = "idle"
    /\ mop = "none"
    /\ handles = <<>>
    /\ joined = 0
    /\ task = [c \in Children |-> "unspawned"]
    /\ invoked = [c \in Children |-> 0]
    /\ applied = [c \in Children |-> 0]
    /\ finishOrder = <<>>
    /\ mresult = NoResult

\* truncate_table / write_table_rows / write_events called on the Multi variant
MultiCall(op) ==
    /\ mpc = "idle"
    /\ mpc' = "spawn"
    /\ mop' = op
    /\ UNCHANGED <<handles, joined, task, invoked, applied, finishOrder, mresult>>

\* one iteration of `for dest in dests.iter()`: clone the child and the
\* arguments, tokio::spawn the child's call, push the handle. tokio::spawn
\* only queues the future: the child's operation has not started yet
SpawnChild ==
    /\ mpc = "spawn"
    /\ Len(handles) < NChildren
    /\ LET c == Len(handles) + 1 IN
        /\ handles' = Append(handles, c)
        /\ task' = [task EXCEPT ![c] = "spawned"]
    /\ UNCHANGED <<mpc, mop, joined, invoked, applied, finishOrder, mresult>>

\* the runtime polls a queued unit for the first time: the body of the
\* spawned async block starts the child's operation; this can happen while
\* the caller is still spawning, while it joins, or after it has returned
ChildStart(c) ==
    /\ task[c] = "spawned"
    /\ task' = [task EXCEPT ![c] = "running"]
    /\ invoked' = [invoked EXCEPT ![c] = @ + 1]
    /\ UNCHANGED <<mpc, mop, handles, joined, applied, finishOrder, mresult>>

\* the spawn loop is over: the join loop starts
SpawnDone ==
    /\ mpc = "spawn"
    /\ Len(handles) = NChildren
    /\ mpc' = "join"
    /\ UNCHANGED <<mop, handles, joined, task, invoked, applied, finishOrder, mresult>>

\* a started unit runs to its end on the runtime, whatever the caller does:
\* dropping a JoinHandle detaches the task, it does not cancel it
ChildFinish(c, outcome) ==
    /\ task[c] = "running"
    /\ task' = [task EXCEPT ![c] = outcome]
    /\ applied' = [applied EXCEPT ![c] = IF outcome = "ok" THEN @ + 1 ELSE @]
    /\ finishOrder' = Append(finishOrder, c)
    /\ UNCHANGED <<mpc, mop, handles, joined, invoked, mresult>>

\* a join loop that takes a panicked unit for one that finished
JoinOutcomePanicIgnored(h) ==
    CASE task[h] = "ok"    -> [ret |-> FALSE, res |-> NoResult]
      [] task[h] = "err"   -> [ret |-> TRUE,  res |-> ChildError(h)]
      [] task[h] = "panic" -> [ret |-> FALSE, res |-> NoResult]

\* what one iteration of `for h in handles { match h.await {..} }` does with
\* the finished unit of handle h: continue, or return from the call
JoinOutcome(h) ==
    CASE task[h] = "ok"    -> [ret |-> FALSE, res |-> NoResult]
      [] task[h] = "err"   -> [ret |-> TRUE,  res |-> ChildError(h)]
      [] task[h] = "panic" -> [ret |-> TRUE,  res |-> JoinError(h)]

\* mutants of the join loop: awaiting in completion order, and aborting the
\* other units when one fails
JoinNextCompletionOrder ==
    /\ mpc = "join"
    /\ joined < Len(handles)
    /\ joined < Len(finishOrder)
    /\ LET h == finishOrder[joined + 1] IN
        LET o == JoinOutcome(h) IN
            /\ joined' = joined + 1
            /\ mpc' = IF o.ret THEN "returned" ELSE "join"
            /\ mresult' = IF o.ret THEN o.res ELSE mresult
    /\ UNCHANGED <<mop, handles, task, invoked, applied, finishOrder>>

JoinNextAbortOnError ==
    /\ mpc = "join"
    /\ joined < Len(handles)
    /\ LET h == handles[joined + 1] IN
        /\ Finished(h)
        /\ LET o == JoinOutcome(h) IN
            /\ joined' = joined + 1
            /\ mpc' = IF o.ret THEN "returned" ELSE "join"
            /\ mresult' = IF o.ret THEN o.res ELSE mresult
            /\ task' = IF o.ret
                         THEN [c \in Children |->
                                 IF task[c] \in {"spawned", "running"}
                                 THEN "aborted" ELSE task[c]]
                         ELSE task
    /\ UNCHANGED <<mop, handles, invoked, applied, finishOrder>>

\* h.await completes for the next handle in submission order
JoinNext ==
    /\ mpc = "join"
    /\ joined < Len(handles)
    /\ LET h == handles[joined + 1] IN
        /\ Finished(h)
        /\ LET o == JoinOutcome(h) IN
            /\ joined' = joined + 1
            /\ mpc' = IF o.ret THEN "returned" ELSE "join"
            /\ mresult' = IF o.ret THEN o.res ELSE mresult
    /\ UNCHANGED <<mop, handles, task, invoked, applied, finishOrder>>

\* every handle was awaited and none failed: Ok(())
MultiReturnOk ==
    /\ mpc = "join"
    /\ joined = Len(handles)
    /\ mpc' = "returned"
    /\ mresult' = OkResult
    /\ UNCHANGED <<mop, handles, joined, task, invoked, applied, finishOrder>>

NextMulti ==
    \/ (\E op \in MultiOps : MultiCall(op)) /\ UNCHANGED <<sinkVars, dlqVars, projVars>>
    \/ SpawnChild /\ UNCHANGED <<sinkVars, dlqVars, projVars>>
    \/ SpawnDone /\ UNCHANGED <<sinkVars, dlqVars, projVars>>
    \/ (\E c \in Children : ChildStart(c)) /\ UNCHANGED <<sinkVars, dlqVars, projVars>>
    \/ (\E c \in Children, o \in Outcomes : ChildFinish(c, o)) /\ UNCHANGED <<sinkVars, dlqVars, projVars>>
    \/ JoinNext /\ UNCHANGED <<sinkVars, dlqVars, projVars>>
    \/ MultiReturnOk /\ UNCHANGED <<sinkVars, dlqVars, projVars>>

\* ------------------------------------------------------------------------
\* SnowflakeDestination
\* ------------------------------------------------------------------------
\* concurrent callers of one sink instance (clones share every Arc<Mutex<..>>).
\* Callers are interchangeable, so a call that starts takes the first idle one.
ProcSeq == <<"w1", "w2">>
Procs == {ProcSeq[i] : i \in DOMAIN ProcSeq}
NoProc == "none"

\* TableId values
Tables == {1, 2}
NoTable == 0

\* the four tokio mutexes of the struct
LockNames == {"table_cache", "column_cache", "client", "current_token"}

\* String::new(): the empty token
EmptyToken == <<>>
\* the n-th non-empty continuation token issued by the remote API
Token(n) == <<n>>
\* token.is_empty()
IsEmpty(tok) == Len(tok) = 0

\* events handed to write_events; "DeleteNoOld" is Event::Delete with
\* old_table_row = None, "Other" any non-DML event (Begin, Commit, ...)
DmlKinds == {"Insert", "Update", "Delete", "DeleteNoOld"}
SinkEvents ==
    [kind : DmlKinds, table : Tables] \cup {[kind |-> "Other", table |-> NoTable]}

SeqsUpTo(S, n) == UNION {[1..k -> S] : k \in 0..n}

\* rows handed to write_table_rows
SinkRows == {"Row"}

\* str::to_uppercase on the table and column names in use
to_uppercase(name) ==
    CASE name = "id"        -> "ID"
      [] name = "Id"        -> "ID"
      [] name = "val"       -> "VAL"
      [] name = "operation" -> "OPERATION"
      [] name = "users"     -> "USERS"
      [] name = "Users"     -> "USERS"
      [] name = "unknown_2" -> "UNKNOWN_2"
      [] OTHER              -> name

\* what `SELECT cast($1::regclass as text)` can answer for a table, each
\* name given as its '.'-separated parts ("s1.users" is <<"s1", "users">>):
\* a name another table has under another schema or in another case, and a
\* name that reads like the fallback name of another table
CatalogNames(t) ==
    CASE t = 1 -> {<<"s1", "users">>, <<"public", "unknown_2">>}
      [] t = 2 -> {<<"s2", "users">>, <<"Users">>}
      [] OTHER -> {}

\* Option<String> of the name query: None when the query fails or gives no row
NoRow == <<>>
NameRows(t) == CatalogNames(t) \cup (IF t \in Tables THEN {NoRow} ELSE {})

\* raw_name.split('.').last()
name_part(raw_name) == raw_name[Len(raw_name)]

\* table_name not yet resolved
NoName == ""

\* format!("LANDING_{}", name_part.to_uppercase()) and
\* format!("LANDING_UNKNOWN_{}", table_id)
LandingName(raw_name) == "LANDING_" \o to_uppercase(name_part(raw_name))
LandingUnknownName(t) == "LANDING_UNKNOWN_" \o ToString(t)
\* the ordered column list the catalog holds for a table
CatalogColumns(t) == <<"id", "val">>

\* m.entry(k).or_insert_with(v) / m.insert(k, v) / removal on a HashMap
OrInsert(m, k, v) == IF k \in DOMAIN m THEN m ELSE m @@ (k :> v)
Insert(m, k, v) == [x \in DOMAIN m \cup {k} |-> IF x = k THEN v ELSE m[x]]
Remove(m, k) == [x \in DOMAIN m \ {k} |-> m[x]]
EmptyMap == [x \in {} |-> {}]

RECURSIVE EventsOfTable(_, _)
\* the DML events of a list whose table is t, in their original order
EventsOfTable(evs, t) ==
    IF evs = <<>> THEN <<>>
    ELSE IF Head(evs).kind \in DmlKinds /\ Head(evs).table = t
         THEN <<Head(evs).kind>> \o EventsOfTable(Tail(evs), t)
         ELSE EventsOfTable(Tail(evs), t)

\* events_by_table of write_events: non-DML events are ignored, the others
\* are grouped by table_id keeping their order
GroupByTable(evs) ==
    LET tids == {evs[i].table : i \in {j \in 1..Len(evs) : evs[j].kind \in DmlKinds}}
    IN [t \in tids |-> EventsOfTable(evs, t)]

\* the operation marker row_to_json_object is called with for an event, or
\* "skip" when the event yields no record
OperationOf(kind) ==
    CASE kind = "Row"    -> "C"
      [] kind = "Insert" -> "C"
      [] kind = "Update" -> "U"
      [] kind = "Delete" -> "D"
      [] OTHER           -> "skip"

RECURSIVE JsonRows(_)
\* json_rows: one record per event that yields one, in order
JsonRows(kinds) ==
    IF kinds = <<>> THEN <<>>
    ELSE IF OperationOf(Head(kinds)) = "skip"
         THEN JsonRows(Tail(kinds))
         ELSE <<OperationOf(Head(kinds))>> \o JsonRows(Tail(kinds))

\* the environment (catalog, remote API) misbehaves at most MaxAnomalies times
Anomaly(bad) ==
    IF bad THEN anomalies < MaxAnomalies /\ anomalies' = anomalies + 1
    ELSE UNCHANGED anomalies

NoCall == [kind |-> "none", id |-> 0, events |-> <<>>]

InitSink ==
    /\ spc = [p \in Procs |-> "idle"]
    /\ scall = [p \in Procs |-> NoCall]
    /\ groups = [p \in Procs |-> EmptyMap]
    /\ cur = [p \in Procs |-> NoTable]
    /\ tname = [p \in Procs |-> NoName]
    /\ cols = [p \in Procs |-> <<>>]
    /\ sentTok = [p \in Procs |-> EmptyToken]
    /\ sresult = <<>>
    /\ table_cache = EmptyMap
    /\ column_cache = EmptyMap
    /\ current_token = EmptyMap
    /\ locks = [l \in LockNames |-> NoProc]
    /\ log = <<>>
    /\ issued = 0
    /\ anomalies = 0

\* guards dropped when p leaves the per-table section or returns
\* (ReleasedKeepGuards: the guards outlive the section)
ReleasedKeepGuards(p) == locks
Released(p) == [l \in LockNames |-> IF locks[l] = p THEN NoProc ELSE locks[l]]

\* the per-table section of p ends: its guards and locals are dropped
LeaveSection(p) ==
    /\ cur' = [cur EXCEPT ![p] = NoTable]
    /\ tname' = [tname EXCEPT ![p] = NoName]
    /\ cols' = [cols EXCEPT ![p] = <<>>]
    /\ sentTok' = [sentTok EXCEPT ![p] = EmptyToken]
    /\ locks' = Released(p)

\* the running call of p returns res
Return(p, res) ==
    /\ spc' = [spc EXCEPT ![p] = "idle"]
    /\ scall' = [scall EXCEPT ![p] = NoCall]
    /\ sresult' = [sresult EXCEPT ![scall[p].id] = res]
    /\ groups' = [groups EXCEPT ![p] = EmptyMap]
    /\ LeaveSection(p)

\* first idle caller
FirstIdle(p) ==
    /\ spc[p] = "idle"
    /\ \A i \in DOMAIN ProcSeq :
        ProcSeq[i] = p => \A j \in 1..(i - 1) : spc[ProcSeq[j]] # "idle"

\* number of calls started so far; the next call gets the next number
NCalls == Len(sresult)

\* a call that returns at once
Immediate(p, kind, res) ==
    /\ FirstIdle(p)
    /\ NCalls < MaxCalls
    /\ sresult' = Append(sresult, res)
    /\ UNCHANGED <<spc, scall, groups, cur, tname, cols, sentTok, table_cache,
                   column_cache, current_token, locks, log, issued, anomalies>>

\* a call with argument events that goes on to position pos with
\* events_by_table g
Enter(p, kind, events, pos, g, t) ==
    /\ FirstIdle(p)
    /\ NCalls < MaxCalls
    /\ sresult' = Append(sresult, "running")
    /\ scall' = [scall EXCEPT ![p] =
                     [kind |-> kind, id |-> NCalls + 1, events |-> events]]
    /\ spc' = [spc EXCEPT ![p] = pos]
    /\ groups' = [groups EXCEPT ![p] = g]
    /\ cur' = [cur EXCEPT ![p] = t]
    /\ UNCHANGED <<tname, cols, sentTok, table_cache, column_cache,
                   current_token, locks, log, issued, anomalies>>

\* truncate_table: ignored (append-only), Ok(())
TruncateTable(p, t) == Immediate(p, "truncate_table", "ok")

\* a write_table_rows without the early return for no rows
WriteTableRowsNoEmptyCheck(p, t, rows) ==
    Enter(p, "write_table_rows", [i \in DOMAIN rows |-> [kind |-> rows[i], table |-> t]],
          "table_cache", t :> rows, t)

\* write_table_rows(table_id, rows): Ok(()) at once for no rows, else the
\* per-table section for table_id
WriteTableRows(p, t, rows) ==
    IF rows = <<>>
    THEN Immediate(p, "write_table_rows", "ok")
    ELSE Enter(p, "write_table_rows", [i \in DOMAIN rows |-> [kind |-> rows[i], table |-> t]],
               "table_cache", t :> rows, t)

\* write_events(events): Ok(()) at once for no events, else group by table
\* and loop over events_by_table (HashMap iteration order is arbitrary: any
\* table may come first); Ok(()) when the map is empty
WriteEvents(p, evs) ==
    IF evs = <<>> \/ DOMAIN GroupByTable(evs) = {}
    THEN Immediate(p, "write_events", "ok")
    ELSE \E t \in DOMAIN GroupByTable(evs) :
            Enter(p, "write_events", evs, "table_cache", GroupByTable(evs), t)

\* the per-table section of p ends without error: guards and locals are
\* dropped, the loop goes on with any table left, or the call returns Ok(())
EndIteration(p) ==
    LET g == Remove(groups[p], cur[p]) IN
    /\ tname' = [tname EXCEPT ![p] = NoName]
    /\ cols' = [cols EXCEPT ![p] = <<>>]
    /\ sentTok' = [sentTok EXCEPT ![p] = EmptyToken]
    /\ locks' = Released(p)
    /\ groups' = [groups EXCEPT ![p] = g]
    /\ IF DOMAIN g = {}
       THEN /\ spc' = [spc EXCEPT ![p] = "idle"]
            /\ scall' = [scall EXCEPT ![p] = NoCall]
            /\ sresult' = [sresult EXCEPT ![scall[p].id] = "ok"]
            /\ cur' = [cur EXCEPT ![p] = NoTable]
       ELSE /\ \E t \in DOMAIN g : cur' = [cur EXCEPT ![p] = t]
            /\ spc' = [spc EXCEPT ![p] = "table_cache"]
            /\ UNCHANGED <<scall, sresult>>

\* a name resolution that drops the cache guard before it sends the query
TableCacheGetUnlocked(p) ==
    /\ spc[p] = "table_cache"
    /\ locks["table_cache"] = NoProc
    /\ IF cur[p] \in DOMAIN table_cache
       THEN /\ tname' = [tname EXCEPT ![p] = table_cache[cur[p]]]
            /\ spc' = [spc EXCEPT ![p] = "column_cache"]
       ELSE /\ spc' = [spc EXCEPT ![p] = "table_name_query"]
            /\ UNCHANGED tname
    /\ UNCHANGED <<scall, groups, cur, cols, sentTok, sresult, locks,
                   table_cache, column_cache, current_token, log, issued, anomalies>>

\* resolve_table_name: table_cache.lock().await, then cache.get(&table_id):
\* a hit returns the cached name (guard dropped), a miss sends the catalog
\* query with the guard held
TableCacheGet(p) ==
    /\ spc[p] = "table_cache"
    /\ locks["table_cache"] = NoProc
    /\ IF cur[p] \in DOMAIN table_cache
       THEN /\ tname' = [tname EXCEPT ![p] = table_cache[cur[p]]]
            /\ spc' = [spc EXCEPT ![p] = "column_cache"]
            /\ UNCHANGED locks
       ELSE /\ locks' = [locks EXCEPT !["table_cache"] = p]
            /\ spc' = [spc EXCEPT ![p] = "table_name_query"]
            /\ UNCHANGED tname
    /\ UNCHANGED <<scall, groups, cur, cols, sentTok, sresult,
                   table_cache, column_cache, current_token, log, issued, anomalies>>

\* a name resolution that gives up with an error when the query fails
TableNameQueryAbort(p, row) ==
    /\ spc[p] = "table_name_query"
    /\ IF row # NoRow
       THEN /\ table_cache' = Insert(table_cache, cur[p], LandingName(row))
            /\ tname' = [tname EXCEPT ![p] = LandingName(row)]
            /\ locks' = [locks EXCEPT !["table_cache"] = NoProc]
            /\ spc' = [spc EXCEPT ![p] = "column_cache"]
            /\ UNCHANGED <<scall, groups, cur, cols, sentTok, sresult>>
       ELSE /\ Return(p, "err_catalog")
            /\ UNCHANGED table_cache
    /\ UNCHANGED <<column_cache, current_token, log, issued>>
    /\ Anomaly(row = NoRow)

\* the name query returns row: a name gives LANDING_<LAST PART, UPPER CASE>,
\* an error or no row gives LANDING_UNKNOWN_<id>; the name is cached and the
\* guard dropped
TableNameQuery(p, row) ==
    /\ spc[p] = "table_name_query"
    /\ LET name == IF row # NoRow THEN LandingName(row) ELSE LandingUnknownName(cur[p]) IN
        /\ table_cache' = Insert(table_cache, cur[p], name)
        /\ tname' = [tname EXCEPT ![p] = name]
    /\ locks' = [locks EXCEPT !["table_cache"] = NoProc]
    /\ spc' = [spc EXCEPT ![p] = "column_cache"]
    /\ UNCHANGED <<scall, groups, cur, cols, sentTok, sresult,
                   column_cache, current_token, log, issued>>
    /\ Anomaly(row = NoRow)

\* resolve_column_names: column_cache.lock().await, then cache.get(&table_id)
ColumnCacheGet(p) ==
    /\ spc[p] = "column_cache"
    /\ locks["column_cache"] = NoProc
    /\ IF cur[p] \in DOMAIN column_cache
       THEN /\ cols' = [cols EXCEPT ![p] = column_cache[cur[p]]]
            /\ spc' = [spc EXCEPT ![p] = "client_lock"]
            /\ UNCHANGED locks
       ELSE /\ locks' = [locks EXCEPT !["column_cache"] = p]
            /\ spc' = [spc EXCEPT ![p] = "column_query"]
            /\ UNCHANGED cols
    /\ UNCHANGED <<scall, groups, cur, tname, sentTok, sresult,
                   table_cache, column_cache, current_token, log, issued, anomalies>>

\* the column query returns: the ordered list, or vec![] on error
ColumnQuery(p, found) ==
    /\ spc[p] = "column_query"
    /\ LET names == IF found THEN CatalogColumns(cur[p]) ELSE <<>> IN
        /\ column_cache' = Insert(column_cache, cur[p], names)
        /\ cols' = [cols EXCEPT ![p] = names]
    /\ locks' = [locks EXCEPT !["column_cache"] = NoProc]
    /\ spc' = [spc EXCEPT ![p] = "client_lock"]
    /\ UNCHANGED <<scall, groups, cur, tname, sentTok, sresult,
                   table_cache, current_token, log, issued>>
    /\ Anomaly(~found)

\* a write that goes on to the channel step without waiting for the client
LockClientNoWait(p) ==
    /\ spc[p] = "client_lock"
    /\ locks' = [locks EXCEPT !["client"] = p]
    /\ spc' = [spc EXCEPT ![p] = "current_token_lock"]
    /\ UNCHANGED <<scall, groups, cur, tname, cols, sentTok, sresult,
                   table_cache, column_cache, current_token, log, issued, anomalies>>

\* self.client.lock().await
LockClient(p) ==
    /\ spc[p] = "client_lock"
    /\ locks["client"] = NoProc
    /\ locks' = [locks EXCEPT !["client"] = p]
    /\ spc' = [spc EXCEPT ![p] = "current_token_lock"]
    /\ UNCHANGED <<scall, groups, cur, tname, cols, sentTok, sresult,
                   table_cache, column_cache, current_token, log, issued, anomalies>>

\* what follows the channel step with token tok in hand and the guards in
\* lk: project the events; send insert_rows carrying tok.clone() when there
\* are records (always for write_table_rows), else end the iteration
SendOrSkip(p, tok, lk) ==
    IF JsonRows(groups[p][cur[p]]) # <<>>
    THEN /\ spc' = [spc EXCEPT ![p] = "insert_rows"]
         /\ sentTok' = [sentTok EXCEPT ![p] = tok]
         /\ locks' = lk
         /\ UNCHANGED <<groups, cur, tname, cols, scall, sresult>>
    ELSE EndIteration(p)

\* self.current_token.lock().await, then
\* tokens.entry(table_id).or_insert_with(String::new); if token.is_empty()
\* send open_channel, else use the existing channel
TokenEntry(p) ==
    /\ spc[p] = "current_token_lock"
    /\ locks["current_token"] = NoProc
    /\ current_token' = OrInsert(current_token, cur[p], EmptyToken)
    /\ IF IsEmpty(current_token'[cur[p]])
       THEN /\ spc' = [spc EXCEPT ![p] = "open_channel"]
            /\ locks' = [locks EXCEPT !["current_token"] = p]
            /\ UNCHANGED <<groups, cur, tname, cols, sentTok, scall, sresult>>
       ELSE SendOrSkip(p, current_token'[cur[p]],
                       [locks EXCEPT !["current_token"] = p])
    /\ UNCHANGED <<table_cache, column_cache, log, issued, anomalies>>

\* what the remote API answers: an error, an empty token, a new token
Answers == {"error", "empty", "token"}
AnswerToken(a) == IF a = "token" THEN Token(issued + 1) ELSE EmptyToken
Issue(a) == IF a = "token" THEN issued + 1 ELSE issued

\* a remote call as the API sees it: open_channel(&table_name, "default") or
\* insert_rows(&table_name, "default", json_rows, Some(token.clone())), the
\* table and call it was made for, and its answer
LogEntry(p, op, tok, a) ==
    [op |-> op, table |-> cur[p], name |-> tname[p],
     rows |-> IF op = "submit" THEN JsonRows(groups[p][cur[p]]) ELSE <<>>,
     tok |-> tok, ok |-> a # "error",
     ret |-> AnswerToken(a), call |-> scall[p].id]

\* mutant of OpenChannelReturn: the error of open_channel is not propagated,
\* the write goes on with the empty token
OpenChannelReturnNoPropagate(p, a) ==
    /\ spc[p] = "open_channel"
    /\ log' = Append(log, LogEntry(p, "open", EmptyToken, a))
    /\ issued' = Issue(a)
    /\ Anomaly(a # "token")
    /\ current_token' = [current_token EXCEPT ![cur[p]] = AnswerToken(a)]
    /\ SendOrSkip(p, AnswerToken(a), locks)
    /\ UNCHANGED <<table_cache, column_cache>>

\* open_channel returns: an error ends the call (`?`), a token is stored in
\* the map entry and the write goes on
OpenChannelReturn(p, a) ==
    /\ spc[p] = "open_channel"
    /\ log' = Append(log, LogEntry(p, "open", EmptyToken, a))
    /\ issued' = Issue(a)
    /\ Anomaly(a # "token")
    /\ IF a = "error"
       THEN /\ Return(p, "err_open")
            /\ UNCHANGED current_token
       ELSE /\ current_token' = [current_token EXCEPT ![cur[p]] = AnswerToken(a)]
            /\ SendOrSkip(p, AnswerToken(a), locks)
    /\ UNCHANGED <<table_cache, column_cache>>

\* an insert_rows whose error is logged and the loop goes on with the next
\* table
InsertRowsReturnNextTable(p, a) ==
    /\ spc[p] = "insert_rows"
    /\ log' = Append(log, LogEntry(p, "submit", sentTok[p], a))
    /\ issued' = Issue(a)
    /\ Anomaly(a # "token")
    /\ current_token' = IF a = "error" THEN current_token
                        ELSE [current_token EXCEPT ![cur[p]] = AnswerToken(a)]
    /\ EndIteration(p)
    /\ UNCHANGED <<table_cache, column_cache>>

\* insert_rows returns: an error ends the call (`?`) before the token is
\* replaced; on success *token = next_token and the iteration ends
InsertRowsReturn(p, a) ==
    /\ spc[p] = "insert_rows"
    /\ log' = Append(log, LogEntry(p, "submit", sentTok[p], a))
    /\ issued' = Issue(a)
    /\ Anomaly(a # "token")
    /\ IF a = "error"
       THEN /\ Return(p, "err_submit")
            /\ UNCHANGED current_token
       ELSE /\ current_token' = [current_token EXCEPT ![cur[p]] = AnswerToken(a)]
            /\ EndIteration(p)
    /\ UNCHANGED <<table_cache, column_cache>>

\* event lists of the concurrent callers: inserts, and a lone delete without
\* a pre-image
ConcEventInputs ==
    SeqsUpTo([kind : {"Insert"}, table : Tables], MaxEvents)
    \cup {<<[kind |-> "DeleteNoOld", table |-> t]>> : t \in Tables}

NextSink ==
    \/ (\E p \in Procs, t \in Tables : TruncateTable(p, t)) /\ UNCHANGED <<multiVars, dlqVars, projVars>>
    \/ (\E p \in Procs, t \in Tables, rows \in SeqsUpTo(SinkRows, MaxRows) :
            WriteTableRows(p, t, rows)) /\ UNCHANGED <<multiVars, dlqVars, projVars>>
    \/ (\E p \in Procs, evs \in ConcEventInputs : WriteEvents(p, evs))
            /\ UNCHANGED <<multiVars, dlqVars, projVars>>
    \/ (\E p \in Procs : TableCacheGet(p)) /\ UNCHANGED <<multiVars, dlqVars, projVars>>
    \/ (\E p \in Procs : \E row \in NameRows(cur[p]) : TableNameQuery(p, row))
            /\ UNCHANGED <<multiVars, dlqVars, projVars>>
    \/ (\E p \in Procs : ColumnCacheGet(p)) /\ UNCHANGED <<multiVars, dlqVars, projVars>>
    \/ (\E p \in Procs, found \in BOOLEAN : ColumnQuery(p, found))
            /\ UNCHANGED <<multiVars, dlqVars, projVars>>
    \/ (\E p \in Procs : LockClient(p)) /\ UNCHANGED <<multiVars, dlqVars, projVars>>
    \/ (\E p \in Procs : TokenEntry(p)) /\ UNCHANGED <<multiVars, dlqVars, projVars>>
    \/ (\E p \in Procs, a \in Answers : OpenChannelReturn(p, a))
            /\ UNCHANGED <<multiVars, dlqVars, projVars>>
    \/ (\E p \in Procs, a \in Answers : InsertRowsReturn(p, a))
            /\ UNCHANGED <<multiVars, dlqVars, projVars>>

\* event lists of a single caller: every list of up to MaxEvents events out
\* of two kinds of forwarded event for one table, a delete with and a delete
\* without pre-image for the other, and a non-DML event
EventInputs ==
    SeqsUpTo({[kind |-> "Insert", table |-> 1],
              [kind |-> "Update", table |-> 1],
              [kind |-> "Delete", table |-> 2],
              [kind |-> "DeleteNoOld", table |-> 2],
              [kind |-> "Other", table |-> NoTable]}, MaxEvents)

\* one caller that makes its write_events calls one after the other
NextSinkEvents ==
    \/ (FirstIdle(ProcSeq[1]) /\ \E evs \in EventInputs : WriteEvents(ProcSeq[1], evs))
            /\ UNCHANGED <<multiVars, dlqVars, projVars>>
    \/ (\E p \in Procs : TableCacheGet(p)) /\ UNCHANGED <<multiVars, dlqVars, projVars>>
    \/ (\E p \in Procs : \E row \in NameRows(cur[p]) : TableNameQuery(p, row))
            /\ UNCHANGED <<multiVars, dlqVars, projVars>>
    \/ (\E p \in Procs : ColumnCacheGet(p)) /\ UNCHANGED <<multiVars, dlqVars, projVars>>
    \/ (\E p \in Procs, found \in BOOLEAN : ColumnQuery(p, found))
            /\ UNCHANGED <<multiVars, dlqVars, projVars>>
    \/ (\E p \in Procs : LockClient(p)) /\ UNCHANGED <<multiVars, dlqVars, projVars>>
    \/ (\E p \in Procs : TokenEntry(p)) /\ UNCHANGED <<multiVars, dlqVars, projVars>>
    \/ (\E p \in Procs, a \in Answers : OpenChannelReturn(p, a))
            /\ UNCHANGED <<multiVars, dlqVars, projVars>>
    \/ (\E p \in Procs, a \in Answers : InsertRowsReturn(p, a))
            /\ UNCHANGED <<multiVars, dlqVars, projVars>>

\* ------------------------------------------------------------------------
\* DlqStore (src/src/dlq/store.rs)
\* ------------------------------------------------------------------------

\* pipeline_dest_id values and table names used by the callers
DlqDests == {1, 2}

make_key(pipeline_dest_id, table_name) == <<pipeline_dest_id, table_name>>

\* the keys the callers use: two tables of one destination, one of another
DlqKeys == {make_key(1, "a"), make_key(1, "b"), make_key(2, "a")}

\* the events of one push: the n events following the `from` events the
\* key has been handed before; an event carries its key and its number
EventBatch(k, from, n) == [i \in 1..n |-> [key |-> k, n |-> from + i]]

\* event lists a caller can hand to push for key k (the empty list included)
PushInputs(k) == {EventBatch(k, npushed[k], n) : n \in 0..MaxBatch}

\* DlqEntry; its timestamp is never read
DlqEntry(events) == [events |-> events]

RECURSIVE Flatten(_)
\* the events of a queue's entries, entry by entry
Flatten(queue) ==
    IF queue = <<>> THEN <<>> ELSE Head(queue).events \o Flatten(Tail(queue))

\* format!("count:{}:{}", pipeline_dest_id, table_name)
CountKey(pipeline_dest_id, table_name) ==
    "count:" \o ToString(pipeline_dest_id) \o ":" \o table_name

\* count.to_string()
CountValue(count) == ToString(count)

\* String::parse::<usize>().unwrap_or(0) on the values the store can hold
ParseCount(value) ==
    IF \E n \in 0..(MaxPushes + 1) : ToString(n) = value
    THEN CHOOSE n \in 0..(MaxPushes + 1) : ToString(n) = value
    ELSE 0

\* update_count_metadata: the keyspace after the insert; a failed insert
\* leaves the keyspace as it was and the `?` returns the error
update_count_metadata(pipeline_dest_id, table_name, count, ok) ==
    IF ok
    THEN Insert(metadata_ks, CountKey(pipeline_dest_id, table_name), CountValue(count))
    ELSE metadata_ks

NoDlqCall ==
    [op |-> "none", key |-> <<0, "">>, limit |-> 0, ok |-> TRUE,
     events |-> <<>>, value |-> 0]

InitDlq ==
    /\ queues = EmptyMap
    /\ metadata_ks = EmptyMap
    /\ npushed = [k \in DlqKeys |-> 0]
    /\ delivered = [k \in DlqKeys |-> <<>>]
    /\ lost = [k \in DlqKeys |-> {}]
    /\ last = NoDlqCall
    /\ dlqCalls = [push |-> 0, pop |-> 0, failed |-> 0, restart |-> 0]

\* a durable counter write may fail while the failure budget lasts
WriteOutcomes == IF dlqCalls.failed < MaxWriteFailures THEN {TRUE, FALSE} ELSE {TRUE}

Range(seq) == {seq[i] : i \in 1..Len(seq)}

\* queues.entry(key).or_insert_with(VecDeque::new).push_back(entry)
PushBackFront(qs, key, entry) ==
    Insert(qs, key, <<entry>> \o (IF key \in DOMAIN qs THEN qs[key] ELSE <<>>))
PushBack(qs, key, entry) ==
    Insert(qs, key, Append(IF key \in DOMAIN qs THEN qs[key] ELSE <<>>, entry))

\* a push without the early return for an empty event list
PushNoEmptyCheck(pipeline_dest_id, table_name, events, ok) ==
    LET key == make_key(pipeline_dest_id, table_name)
        call == [NoDlqCall EXCEPT !.op = "push", !.key = key, !.events = events]
        pushed == PushBack(queues, key, DlqEntry(events))
        count == Len(pushed[key])
    IN  /\ dlqCalls.push < MaxPushes
        /\ queues' = pushed
        /\ metadata_ks' =
               update_count_metadata(pipeline_dest_id, table_name, count, ok)
        /\ npushed' = [npushed EXCEPT ![key] = @ + Len(events)]
        /\ last' = [call EXCEPT !.ok = ok]
        /\ dlqCalls' = [dlqCalls EXCEPT !.push = @ + 1,
                           !.failed = IF ok THEN @ ELSE @ + 1]
        /\ UNCHANGED <<delivered, lost>>

\* push(pipeline_dest_id, table_name, events); ok: the counter write succeeds
Push(pipeline_dest_id, table_name, events, ok) ==
    LET key == make_key(pipeline_dest_id, table_name)
        call == [NoDlqCall EXCEPT !.op = "push", !.key = key, !.events = events]
    IN  /\ dlqCalls.push < MaxPushes
        /\ IF events = <<>>
           THEN /\ ok
                /\ last' = call
                /\ dlqCalls' = [dlqCalls EXCEPT !.push = @ + 1]
                /\ UNCHANGED <<queues, metadata_ks, npushed, delivered, lost>>
           ELSE LET pushed == PushBack(queues, key, DlqEntry(events))
                    count == Len(pushed[key])
                IN  /\ queues' = pushed
                    /\ metadata_ks' =
                           update_count_metadata(pipeline_dest_id, table_name, count, ok)
                    /\ npushed' = [npushed EXCEPT ![key] = @ + Len(events)]
                    /\ last' = [call EXCEPT !.ok = ok]
                    /\ dlqCalls' = [dlqCalls EXCEPT !.push = @ + 1,
                                       !.failed = IF ok THEN @ ELSE @ + 1]
                    /\ UNCHANGED <<delivered, lost>>

RECURSIVE TakeBatches(_, _, _)
\* the loop of pop_batch: while batches_to_take > 0 && !queue.is_empty()
TakeBatchesByEvents(queue, batches_to_take, all_events) ==
    IF batches_to_take > 0 /\ queue # <<>>
    THEN TakeBatches(Tail(queue), batches_to_take - Len(Head(queue).events),
                     all_events \o Head(queue).events)
    ELSE [queue |-> queue, all_events |-> all_events]
TakeBatches(queue, batches_to_take, all_events) ==
    IF batches_to_take > 0 /\ queue # <<>>
    THEN TakeBatches(Tail(queue), batches_to_take - 1,
                     all_events \o Head(queue).events)
    ELSE [queue |-> queue, all_events |-> all_events]

\* pop_batch(pipeline_dest_id, table_name, limit); ok: the counter write succeeds
PopBatch(pipeline_dest_id, table_name, limit, ok) ==
    LET key == make_key(pipeline_dest_id, table_name)
        call == [NoDlqCall EXCEPT !.op = "pop_batch", !.key = key, !.limit = limit]
    IN  /\ dlqCalls.pop < MaxPops
        /\ IF key \in DOMAIN queues
           THEN LET taken == TakeBatches(queues[key], limit, <<>>)
                    remaining == Len(taken.queue)
                IN  /\ queues' = [queues EXCEPT ![key] = taken.queue]
                    /\ metadata_ks' =
                           update_count_metadata(pipeline_dest_id, table_name, remaining, ok)
                    /\ last' = [call EXCEPT !.ok = ok,
                                   !.events = IF ok THEN taken.all_events ELSE <<>>]
                    /\ delivered' = [delivered EXCEPT ![key] =
                                        IF ok THEN @ \o taken.all_events ELSE @]
                    /\ lost' = [lost EXCEPT ![key] =
                                   IF ok THEN @ ELSE @ \cup Range(taken.all_events)]
                    /\ dlqCalls' = [dlqCalls EXCEPT !.pop = @ + 1,
                                       !.failed = IF ok THEN @ ELSE @ + 1]
                    /\ UNCHANGED npushed
           ELSE /\ ok
                /\ last' = call
                /\ dlqCalls' = [dlqCalls EXCEPT !.pop = @ + 1]
                /\ UNCHANGED <<queues, metadata_ks, npushed, delivered, lost>>

\* is_empty(pipeline_dest_id, table_name)
is_empty(pipeline_dest_id, table_name) ==
    LET key == make_key(pipeline_dest_id, table_name)
    IN  IF key \in DOMAIN queues THEN queues[key] = <<>> ELSE TRUE

RECURSIVE SumLen(_, _)
\* .map(|(_, queue)| queue.len()).sum() over the keys of a set
SumLen(qs, keys) ==
    IF keys = {} THEN 0
    ELSE LET k == CHOOSE x \in keys : TRUE
         IN  Len(qs[k]) + SumLen(qs, keys \ {k})

\* count_for_destination(pipeline_dest_id): batches queued over all its tables
count_for_destination(pipeline_dest_id) ==
    SumLen(queues, {k \in DOMAIN queues : k[1] = pipeline_dest_id})

\* get_pending_tables(pipeline_dest_id); the Vec comes in the map's iteration
\* order, which is arbitrary: the tables are given as a set
\* (get_pending_tables_any_queue: the filter without `!queue.is_empty()`)
get_pending_tables_any_queue(pipeline_dest_id) ==
    {k[2] : k \in {x \in DOMAIN queues : x[1] = pipeline_dest_id}}
get_pending_tables(pipeline_dest_id) ==
    {k[2] : k \in {x \in DOMAIN queues : x[1] = pipeline_dest_id /\ queues[x] # <<>>}}

\* get_stored_count(pipeline_dest_id, table_name)
get_stored_count(pipeline_dest_id, table_name) ==
    LET key == CountKey(pipeline_dest_id, table_name)
    IN  IF key \in DOMAIN metadata_ks THEN ParseCount(metadata_ks[key]) ELSE 0

\* a read-only call: nothing but the caller's view changes
DlqRead(op, key, value) ==
    /\ last' = [NoDlqCall EXCEPT !.op = op, !.key = key, !.value = value]
    /\ last' # last
    /\ UNCHANGED <<queues, metadata_ks, npushed, delivered, lost, dlqCalls>>

IsEmptyCall(d, t) == DlqRead("is_empty", make_key(d, t), is_empty(d, t))

CountForDestinationCall(d) ==
    DlqRead("count_for_destination", <<d, "">>, count_for_destination(d))

GetPendingTablesCall(d) ==
    DlqRead("get_pending_tables", <<d, "">>, get_pending_tables(d))

GetStoredCountCall(d, t) ==
    DlqRead("get_stored_count", make_key(d, t), get_stored_count(d, t))

\* a restart that opens an empty database instead of the one written before
RestartNewDatabase ==
    /\ dlqCalls.restart < MaxRestarts
    /\ queues' = EmptyMap
    /\ metadata_ks' = EmptyMap
    /\ lost' = [k \in DlqKeys |->
                   lost[k] \cup (IF k \in DOMAIN queues
                                 THEN Range(Flatten(queues[k])) ELSE {})]
    /\ last' = [NoDlqCall EXCEPT !.op = "restart"]
    /\ dlqCalls' = [dlqCalls EXCEPT !.restart = @ + 1]
    /\ UNCHANGED <<npushed, delivered>>

\* the process stops and DlqStore::new opens the same database again: the
\* queues start empty, the keyspace keeps what was written
Restart ==
    /\ dlqCalls.restart < MaxRestarts
    /\ queues' = EmptyMap
    /\ lost' = [k \in DlqKeys |->
                   lost[k] \cup (IF k \in DOMAIN queues
                                 THEN Range(Flatten(queues[k])) ELSE {})]
    /\ last' = [NoDlqCall EXCEPT !.op = "restart"]
    /\ dlqCalls' = [dlqCalls EXCEPT !.restart = @ + 1]
    /\ UNCHANGED <<metadata_ks, npushed, delivered>>

NextDlq ==
    \/ (\E k \in DlqKeys, ok \in WriteOutcomes :
            \E events \in PushInputs(k) : Push(k[1], k[2], events, ok))
            /\ UNCHANGED <<multiVars, sinkVars, projVars>>
    \/ (\E k \in DlqKeys, limit \in 0..MaxLimit, ok \in WriteOutcomes :
            PopBatch(k[1], k[2], limit, ok))
            /\ UNCHANGED <<multiVars, sinkVars, projVars>>
    \/ (\E k \in DlqKeys : IsEmptyCall(k[1], k[2]))
            /\ UNCHANGED <<multiVars, sinkVars, projVars>>
    \/ (\E d \in DlqDests : CountForDestinationCall(d))
            /\ UNCHANGED <<multiVars, sinkVars, projVars>>
    \/ (\E d \in DlqDests : GetPendingTablesCall(d))
            /\ UNCHANGED <<multiVars, sinkVars, projVars>>
    \/ (\E k \in DlqKeys : GetStoredCountCall(k[1], k[2]))
            /\ UNCHANGED <<multiVars, sinkVars, projVars>>
    \/ Restart /\ UNCHANGED <<multiVars, sinkVars, projVars>>

\* ------------------------------------------------------------------------
\* Row projection (src/src/snowflake/destination.rs, free functions)
\* ------------------------------------------------------------------------

\* cells of a row: some variants of etl::types::Cell
Cells ==
    {[type |-> "Null"], [type |-> "Bool", b |-> TRUE], [type |-> "I32", n |-> 7],
     [type |-> "String", s |-> "x"], [type |-> "Bytes", len |-> 5]}

\* cell_to_json_value
cell_to_json_value(cell) ==
    CASE cell.type = "Null"   -> [json |-> "null"]
      [] cell.type = "Bool"   -> [json |-> "bool", b |-> cell.b]
      [] cell.type = "I32"    -> [json |-> "number", n |-> cell.n]
      [] cell.type = "String" -> [json |-> "string", s |-> cell.s]
      [] cell.type = "Bytes"  ->
            [json |-> "string", s |-> "<bytes len=" \o ToString(cell.len) \o ">"]

\* column names a catalog can hold
ColumnNames == {"id", "Id", "val", "operation"}

\* the key of the i-th cell (i counted from 0):
\* column_names.get(i).map(to_uppercase).unwrap_or_else(|| format!("COL_{}", i))
col_name(column_names, i) ==
    IF i + 1 <= Len(column_names)
    THEN to_uppercase(column_names[i + 1])
    ELSE "COL_" \o ToString(i)

\* DateTime<Utc>::to_rfc3339 of the instant `now` (seconds of one minute)
to_rfc3339(now) == "2024-01-01T00:00:0" \o ToString(now) \o "+00:00"

RECURSIVE InsertCells(_, _, _, _)
\* the loop over row.values.iter().enumerate() from cell i on: obj.insert
\* replaces the value of a key the object already has
InsertCells(obj, values, column_names, i) ==
    IF i >= Len(values) THEN obj
    ELSE InsertCells(Insert(obj, col_name(column_names, i),
                            cell_to_json_value(values[i + 1])),
                     values, column_names, i + 1)

\* row_to_json_object(row, column_names, operation)
row_to_json_object(values, column_names, operation, now) ==
    Insert(Insert(InsertCells(EmptyMap, values, column_names, 0),
                  "OPERATION", [json |-> "string", s |-> operation]),
           "SYNC_TIMESTAMP", [json |-> "string", s |-> to_rfc3339(now)])

Operations == {"C", "U", "D"}

InitProject ==
    /\ prow \in SeqsUpTo(Cells, MaxCells)
    /\ pcolumns \in SeqsUpTo(ColumnNames, MaxColumns)
    /\ poperation \in Operations
    /\ pnow \in {0, 1}
    /\ pobj = EmptyMap

\* one call of row_to_json_object
Project ==
    /\ pobj = EmptyMap
    /\ pobj' = row_to_json_object(prow, pcolumns, poperation, pnow)
    /\ UNCHANGED <<prow, pcolumns, poperation, pnow>>

NextProject == Project /\ UNCHANGED <<multiVars, sinkVars, dlqVars>>

\* the empty row, the catalog's column list and an insert: the call the other
\* subsystems start from
InitProjectOne ==
    /\ prow = <<>>
    /\ pcolumns = <<>>
    /\ poperation = "C"
    /\ pnow = 0
    /\ pobj = EmptyMap

Init == InitMulti /\ InitSink /\ InitDlq /\ InitProjectOne

InitAllRows == InitMulti /\ InitSink /\ InitDlq /\ InitProject

SpecMulti == Init /\ [][NextMulti]_vars

SpecSink == Init /\ [][NextSink]_vars

SpecDlq == Init /\ [][NextDlq]_vars

SpecSinkEvents == Init /\ [][NextSinkEvents]_vars

SpecProject == InitAllRows /\ [][NextProject]_vars

\* the runtime keeps scheduling the caller and every spawned unit, and every
\* child operation eventually returns
FairSpecMulti ==
    /\ Init
    /\ [][NextMulti]_vars
    /\ WF_vars(SpawnChild /\ UNCHANGED <<sinkVars, dlqVars, projVars>>)
    /\ WF_vars(SpawnDone /\ UNCHANGED <<sinkVars, dlqVars, projVars>>)
    /\ WF_vars(JoinNext /\ UNCHANGED <<sinkVars, dlqVars, projVars>>)
    /\ WF_vars(MultiReturnOk /\ UNCHANGED <<sinkVars, dlqVars, projVars>>)
    /\ \A c \in Children :
        /\ WF_vars(ChildStart(c) /\ UNCHANGED <<sinkVars, dlqVars, projVars>>)
        /\ WF_vars((\E o \in Outcomes : ChildFinish(c, o)) /\ UNCHANGED <<sinkVars, dlqVars, projVars>>)

\* every catalog query and every remote call eventually returns, and the
\* runtime keeps polling a caller that can go on: a caller whose next lock
\* stays free takes it (tokio's Mutex, which serves its waiters in FIFO
\* order, gives more than this)
FairSpecSink ==
    /\ Init
    /\ [][NextSink]_vars
    /\ \A p \in Procs :
        /\ WF_vars(TableCacheGet(p) /\ UNCHANGED <<multiVars, dlqVars, projVars>>)
        /\ WF_vars(ColumnCacheGet(p) /\ UNCHANGED <<multiVars, dlqVars, projVars>>)
        /\ WF_vars(LockClient(p) /\ UNCHANGED <<multiVars, dlqVars, projVars>>)
        /\ WF_vars(TokenEntry(p) /\ UNCHANGED <<multiVars, dlqVars, projVars>>)
        /\ WF_vars((\E row \in NameRows(cur[p]) : TableNameQuery(p, row))
                       /\ UNCHANGED <<multiVars, dlqVars, projVars>>)
        /\ WF_vars((\E found \in BOOLEAN : ColumnQuery(p, found))
                       /\ UNCHANGED <<multiVars, dlqVars, projVars>>)
        /\ WF_vars((\E a \in Answers : OpenChannelReturn(p, a))
                       /\ UNCHANGED <<multiVars, dlqVars, projVars>>)
        /\ WF_vars((\E a \in Answers : InsertRowsReturn(p, a))
                       /\ UNCHANGED <<multiVars, dlqVars, projVars>>)

\* ------------------------------------------------------------------------
\* Claims on the Multi fan-out
\* ------------------------------------------------------------------------
Failed(c) == task[c] \in {"err", "panic"}

\* position of child c in the completion order (0: not finished yet)
FinishPos(c) ==
    IF \E i \in 1..Len(finishOrder) : finishOrder[i] = c
    THEN CHOOSE i \in 1..Len(finishOrder) : finishOrder[i] = c
    ELSE 0

\* C1: a returned Multi call reports success iff no child failed, and
\* otherwise reports the error of the failing child with the lowest index in
\* the children list, whatever the order in which the children finished.
C1_ErrorInSubmissionOrder ==
    mpc = "returned" =>
        /\ mresult.kind \in {"ok", "err", "join"}
        /\ (mresult.kind = "ok") <=> (\A c \in Children : ~Failed(c))
        /\ mresult.kind # "ok" =>
            LET f == mresult.child IN
                /\ f \in Children
                /\ Failed(f)
                /\ \A j \in Children : j < f => task[j] = "ok"
                /\ mresult = IF task[f] = "err" THEN ChildError(f) ELSE JoinError(f)

\* C1 witness: the call returned child 1's error although child 2 failed
\* earlier in time.
C1_Witness ==
    /\ mpc = "returned"
    /\ mresult = ChildError(1)
    /\ task[2] = "err"
    /\ FinishPos(2) < FinishPos(1)

\* C2: a Multi call returns only after every child's unit of work finished.
C2_ReturnsAfterAllChildren ==
    mpc = "returned" => \A c \in Children : Finished(c)

\* C3: every child's operation is started exactly once (never twice; every
\* child is spawned before the call joins or returns, and a unit that runs
\* or has finished was started once), a finished unit stays finished and its
\* effect stays applied, a child that succeeded has its effect applied
\* exactly once, and every unit is started and runs to completion whichever
\* children fail.
C3_AllChildrenRunToCompletion ==
    /\ [](\A c \in Children : invoked[c] <= 1 /\ applied[c] <= 1)
    /\ [](mpc \in {"join", "returned"} => \A c \in Children : task[c] # "unspawned")
    /\ [](\A c \in Children :
            /\ task[c] \in {"unspawned", "spawned", "running"} \cup Outcomes
            /\ (task[c] \in {"running"} \cup Outcomes) <=> (invoked[c] = 1)
            /\ (task[c] = "ok") <=> (applied[c] = 1))
    /\ [][\A c \in Children :
            /\ applied'[c] >= applied[c]
            /\ Finished(c) => task'[c] = task[c]]_vars
    /\ (mpc = "spawn") ~> (\A c \in Children : Finished(c) /\ invoked[c] = 1)

\* C3 witness: the second of three children failed, the call returned its
\* error, and the first and third children's effects are applied.
C3_Witness ==
    /\ mpc = "returned"
    /\ mresult = ChildError(2)
    /\ task[1] = "ok" /\ task[3] = "ok"
    /\ applied[1] = 1 /\ applied[3] = 1
    /\ invoked[2] = 1

\* ------------------------------------------------------------------------
\* Claims on the streaming sink's channel tokens
\* ------------------------------------------------------------------------
\* the remote calls made for table t, in order
TableLog(t) == SelectSeq(log, LAMBDA e : e.table = t)

\* callers with an insert_rows in flight for table t
InFlightSubmits(t) == {p \in Procs : spc[p] = "insert_rows" /\ cur[p] = t}

\* index of the last successful remote call before position i of L (0: none)
LastOkBefore(L, i) ==
    IF \E j \in 1..(i - 1) : L[j].ok
    THEN CHOOSE j \in 1..(i - 1) : L[j].ok /\ \A k \in (j + 1)..(i - 1) : ~L[k].ok
    ELSE 0

\* C4: while every remote call for a table succeeds, the first one is the only
\* open_channel, every later one is an insert_rows, the first submit carries
\* the token open returned and each later submit the token the submit before
\* it returned; and in general every submit carries the token returned by the
\* immediately preceding successful open or submit for the table.
C4_TokenChaining ==
    \A t \in Tables :
        LET L == TableLog(t) IN
        /\ \A i \in 1..Len(L) :
                L[i].op = "submit" =>
                    /\ LastOkBefore(L, i) # 0
                    /\ L[i].tok = L[LastOkBefore(L, i)].ret
        /\ (\A i \in 1..Len(L) : L[i].ok) =>
                \A i \in 1..Len(L) :
                    IF i = 1 THEN L[i].op = "open"
                    ELSE L[i].op = "submit" /\ L[i].tok = L[i - 1].ret

\* C5: after a successful open_channel for a table, no later write calls
\* open_channel for that table again, whatever tokens the remote API returns.
C5_NoReopen ==
    \A t \in Tables :
        LET L == TableLog(t) IN
        \A i, j \in 1..Len(L) :
            (i < j /\ L[i].op = "open" /\ L[i].ok) => L[j].op # "open"

\* C6: at most one submit per table is in flight, no two submits for the
\* same table carry the same token (a token is sent again only after the
\* submit that carried it failed), and the token returned by a successful
\* submit is carried by the next submit for the table.
C6_TokenInvariantConcurrent ==
    \A t \in Tables :
        LET L == TableLog(t)
            S == SelectSeq(L, LAMBDA e : e.op = "submit")
        IN
        /\ Cardinality(InFlightSubmits(t)) <= 1
        /\ \A i, j \in 1..Len(S) : (i < j /\ S[i].ok) => S[i].tok # S[j].tok
        /\ \A p \in InFlightSubmits(t), i \in 1..Len(S) :
                S[i].ok => S[i].tok # sentTok[p]
        /\ \A i \in 1..(Len(S) - 1) : S[i].ok => S[i + 1].tok = S[i].ret
        /\ \A p \in InFlightSubmits(t) :
                (Len(S) > 0 /\ S[Len(S)].ok) => sentTok[p] = S[Len(S)].ret

\* C7: a failed insert_rows makes the call return an error and leaves the
\* cached token as it was, and the next remote call for the table is a submit
\* carrying that same token, not an open_channel.
C7_SubmitFailureKeepsToken ==
    \A t \in Tables :
        LET L == TableLog(t) IN
        \A i \in 1..Len(L) :
            (L[i].op = "submit" /\ ~L[i].ok) =>
                /\ sresult[L[i].call] = "err_submit"
                /\ i = Len(L) => current_token[t] = L[i].tok
                /\ i < Len(L) => L[i + 1].op = "submit" /\ L[i + 1].tok = L[i].tok

\* C8: a failed open_channel makes the call return an error at once: that
\* call makes no submit for the table and no further remote call (no retry),
\* the table's token stays empty, and the next remote call for the table is
\* an open_channel of another call.
C8_OpenFailure ==
    \A i \in 1..Len(log) :
        (log[i].op = "open" /\ ~log[i].ok) =>
            /\ sresult[log[i].call] = "err_open"
            /\ \A p \in Procs : scall[p].id # log[i].call
            /\ \A j \in 1..Len(log) :
                    log[j].call = log[i].call =>
                        /\ j <= i
                        /\ log[j].table = log[i].table => j = i
            /\ LET t == log[i].table
                   later == {j \in (i + 1)..Len(log) : log[j].table = t}
               IN
               IF later = {}
               THEN t \in DOMAIN current_token /\ IsEmpty(current_token[t])
               ELSE LET n == CHOOSE j \in later : \A k \in later : j <= k IN
                    log[n].op = "open" /\ log[n].call # log[i].call

\* C8 witness: open_channel failed for a table and a later write opened the
\* channel for that table again.
C8_Witness ==
    \E i, j \in 1..Len(log) :
        /\ i < j
        /\ log[i].op = "open" /\ ~log[i].ok
        /\ log[j].op = "open" /\ log[j].table = log[i].table

\* ------------------------------------------------------------------------
\* Claims about the DlqStore
\* ------------------------------------------------------------------------

\* the queue of a key (no queue: nothing queued)
QueueOf(k) == IF k \in DOMAIN queues THEN queues[k] ELSE <<>>

\* the events handed to the pushes of key k, in push order
PushedEvents(k) == EventBatch(k, 0, npushed[k])

\* a list of events that follows push order
InPushOrder(s) == \A i, j \in 1..Len(s) : i < j => s[i].n < s[j].n

Min(a, b) == IF a < b THEN a ELSE b

\* C9: for every key, the events pop_batch has returned followed by the
\* events still queued are events of that key in exactly the order they
\* were pushed (batch after batch, and in order within a batch), with none
\* missing unless a failed call or a restart dropped it; and a push or a
\* pop_batch on one key leaves every other key's queue and returned events
\* as they were.
C9_FifoPerKey ==
    /\ [](\A k \in DlqKeys :
            LET s == delivered[k] \o Flatten(QueueOf(k))
            IN  /\ \A i \in 1..Len(s) : s[i].key = k
                /\ InPushOrder(s)
                /\ Range(s) \cup lost[k] = Range(PushedEvents(k))
                /\ Range(s) \cap lost[k] = {}
                /\ (lost[k] = {} => s = PushedEvents(k)))
    /\ [][\A k \in DlqKeys :
            (last'.op \in {"push", "pop_batch"} /\ last'.key # k)
                => /\ QueueOf(k)' = QueueOf(k)
                   /\ delivered'[k] = delivered[k]]_vars

\* two pops have returned the batches of one key in push order while a
\* batch for another key was pushed in between
C9_Witness ==
    \E k, k2 \in DlqKeys :
        /\ k # k2
        /\ npushed[k2] > 0
        /\ lost[k] = {}
        /\ last.op = "pop_batch" /\ last.key = k /\ last.ok
        /\ last.events # <<>>
        /\ Len(delivered[k]) > Len(last.events)
        /\ delivered[k] = PushedEvents(k)

\* C10: a pop_batch(d, t, limit) on a queue of n entries removes the first
\* min(limit, n) entries, whatever the number of their events, leaves the
\* other entries queued in order and returns the removed entries' events
\* concatenated (an error only when the counter write failed); on an absent
\* key it returns the empty list without error and changes nothing, and on
\* an empty queue it removes nothing and returns the empty list.
C10_PopBatchSemantics ==
    [][dlqCalls'.pop = dlqCalls.pop + 1 =>
        LET k == last'.key
            n == Len(QueueOf(k))
            m == Min(last'.limit, n)
        IN  /\ last'.op = "pop_batch"
            /\ last'.ok <=> dlqCalls'.failed = dlqCalls.failed
            /\ IF k \in DOMAIN queues
               THEN /\ DOMAIN queues' = DOMAIN queues
                    /\ queues'[k] = SubSeq(queues[k], m + 1, n)
                    /\ last'.ok =>
                          last'.events = Flatten(SubSeq(queues[k], 1, m))
                    /\ (n = 0 /\ last'.ok) => last'.events = <<>>
               ELSE /\ last'.ok
                    /\ last'.events = <<>>
                    /\ queues' = queues
                    /\ metadata_ks' = metadata_ks]_vars

\* a pop_batch with limit 2 has returned more events than its limit (two
\* whole batches) and left the third batch queued
C10_Witness ==
    /\ last.op = "pop_batch" /\ last.ok
    /\ last.limit = 2
    /\ Len(last.events) > 2
    /\ last.key \in DOMAIN queues
    /\ Len(queues[last.key]) = 1
    /\ delivered[last.key] = last.events

\* C11: after every pop_batch call and every push of a non-empty batch on a
\* key has returned (no counter write having failed), get_stored_count of
\* the key equals the length (in batches) of the key's in-memory queue, also
\* after restarts and also when the key has no in-memory queue.
C11_CounterTracksQueue ==
    (/\ dlqCalls.failed = 0
     /\ last.ok
     /\ \/ last.op = "pop_batch"
        \/ last.op = "push" /\ last.events # <<>>)
        => get_stored_count(last.key[1], last.key[2]) = Len(QueueOf(last.key))

DlqReadOps == {"is_empty", "count_for_destination", "get_pending_tables",
               "get_stored_count"}

\* C12: a restart leaves every key's get_stored_count at the value written
\* before it, while is_empty is true for every key and count_for_destination
\* is 0 for every destination; a pop_batch made while the queues are still
\* as the restart left them returns no events, without error and without
\* touching the counter; and a read-only call never changes the keyspace.
C12_RestartAsymmetry ==
    /\ [][dlqCalls'.restart = dlqCalls.restart + 1 =>
            /\ \A k \in DlqKeys :
                  /\ get_stored_count(k[1], k[2])' = get_stored_count(k[1], k[2])
                  /\ is_empty(k[1], k[2])'
            /\ \A d \in DlqDests : count_for_destination(d)' = 0]_vars
    /\ [][(dlqCalls'.pop = dlqCalls.pop + 1 /\ queues = EmptyMap) =>
            /\ last'.ok /\ last'.events = <<>>
            /\ metadata_ks' = metadata_ks
            /\ queues' = EmptyMap]_vars
    /\ [][last'.op \in DlqReadOps => metadata_ks' = metadata_ks]_vars

\* after a restart that dropped queued batches of a key, a pop_batch on the
\* key has returned nothing and the counter still reports the old backlog
C12_Witness ==
    /\ dlqCalls.restart = 1
    /\ last.op = "pop_batch" /\ last.ok /\ last.events = <<>>
    /\ queues = EmptyMap
    /\ lost[last.key] # {}
    /\ get_stored_count(last.key[1], last.key[2]) > 0
    /\ is_empty(last.key[1], last.key[2])

\* C13: on a shared store (no restart), whatever the interleaving of the
\* calls, every event of every pushed batch is either still queued or has
\* been returned by exactly one pop_batch: none is lost, none is returned or
\* queued twice.
C13_NoBatchLostOrDuplicated ==
    dlqCalls.restart = 0 =>
        \A k \in DlqKeys :
            LET s == delivered[k] \o Flatten(QueueOf(k))
            IN  /\ Len(s) = npushed[k]
                /\ Range(s) = Range(PushedEvents(k))

\* C14: once a Multi call has returned, a child whose unit panicked or was
\* aborted, with no lower-index child that returned an error, makes the
\* result an error of the join-failure kind (never success, never a panic
\* reaching the caller), and the error carries the diagnostic of that child
\* when no lower-index child failed at all.
C14_JoinFailure ==
    mpc = "returned" =>
        \A c \in Children :
            (task[c] = "panic" /\ \A j \in Children : j < c => task[j] # "err")
                => /\ mresult.kind = "join"
                   /\ (\A j \in Children : j < c => task[j] = "ok")
                          => mresult = JoinError(c)

\* the second child panicked after the first succeeded, the third returned
\* an error, and the call returned the join failure of the second
C14_Witness ==
    /\ mpc = "returned"
    /\ task[1] = "ok" /\ task[2] = "panic" /\ task[3] = "err"
    /\ mresult = JoinError(2)

\* ------------------------------------------------------------------------
\* Further claims about the SnowflakeDestination
\* ------------------------------------------------------------------------

\* the events of the table caller p is processing
CurEvents(p) == IF cur[p] \in DOMAIN groups[p] THEN groups[p][cur[p]] ELSE <<>>

\* C15: delete events without a pre-image yield no record and cannot make
\* write_events fail: for a table whose events in the call are all such
\* deletes no remote call (open_channel or insert_rows) is made, so nothing
\* can fail and the table's channel state stays as it was.
C15_DeleteWithoutPreImage ==
    \A p \in Procs :
        (/\ scall[p].kind = "write_events"
         /\ cur[p] # NoTable
         /\ JsonRows(CurEvents(p)) = <<>>)
            => spc[p] \notin {"open_channel", "insert_rows"}

\* callers inside their per-table write section: past client.lock(), up to
\* the end of the iteration (token lock, open_channel, insert_rows)
InWriteSection == {p \in Procs : spc[p] \in {"current_token_lock", "open_channel", "insert_rows"}}
\* callers with a remote open or submit call in flight
InRemoteCall == {p \in Procs : spc[p] \in {"open_channel", "insert_rows"}}

\* C16: on one sink instance the per-table write sections of two writes
\* never overlap, whether for the same table or for different tables: at
\* most one caller is inside its section, it holds the client lock, and at
\* most one remote open or submit call is in flight.
C16_SinkWideSerialization ==
    /\ Cardinality(InWriteSection) <= 1
    /\ Cardinality(InRemoteCall) <= 1
    /\ \A p \in InWriteSection : locks["client"] = p
    /\ \A p \in InRemoteCall : locks["current_token"] = p

\* one write has a submit in flight for one table while a write for another
\* table waits for the client
C16_Witness ==
    \E p, q \in Procs :
        /\ spc[p] = "insert_rows"
        /\ spc[q] = "client_lock"
        /\ cur[p] # cur[q]
        /\ cur[q] # NoTable

\* keys of the record of a row projected without column names
PlaceholderKeys(values) ==
    {"COL_" \o ToString(i) : i \in 0..(Len(values) - 1)}
        \cup {"OPERATION", "SYNC_TIMESTAMP"}

\* C17: a failed name query gives the name LANDING_UNKNOWN_<id> and the
\* write goes on to the column resolution; a failed column query gives the
\* empty column list and the write goes on to the channel step; no call
\* ever returns a catalog error; and a row projected with the empty column
\* list has each cell keyed by its positional placeholder name.
C17_CatalogFallback ==
    /\ [](\A i \in 1..Len(sresult) :
            sresult[i] \in {"running", "ok", "err_open", "err_submit"})
    /\ [][\A p \in Procs :
            (spc[p] = "table_name_query" /\ spc'[p] # spc[p]) =>
                /\ spc'[p] = "column_cache"
                /\ sresult' = sresult
                /\ tname'[p] = table_cache'[cur[p]]
                /\ anomalies' # anomalies =>
                      tname'[p] = LandingUnknownName(cur[p])]_vars
    /\ [][\A p \in Procs :
            (spc[p] = "column_query" /\ spc'[p] # spc[p]) =>
                /\ spc'[p] = "client_lock"
                /\ sresult' = sresult
                /\ cols'[p] = column_cache'[cur[p]]
                /\ anomalies' # anomalies => cols'[p] = <<>>]_vars
    /\ [](\A p \in Procs :
            (spc[p] = "insert_rows" /\ cols[p] = <<>>) =>
                \A values \in SeqsUpTo(Cells, MaxCells) :
                    DOMAIN row_to_json_object(values, cols[p], "C", 0)
                        = PlaceholderKeys(values))

\* both catalog queries of a table failed and the write has its submit in
\* flight under the fallback name with the empty column list
C17_Witness ==
    \E p \in Procs :
        /\ spc[p] = "insert_rows"
        /\ tname[p] = LandingUnknownName(cur[p])
        /\ cols[p] = <<>>
        /\ anomalies = 2

\* C18: the name cache and the column cache are write-once per table: a
\* catalog query for a table is in flight only while the table has no entry
\* in that cache and for one caller at a time, the query's return creates
\* the entry, and an entry, the fallback of a failed query included, never
\* changes or disappears afterwards.
C18_CachesWriteOnce ==
    /\ [](\A p, q \in Procs :
            /\ spc[p] = "table_name_query" =>
                  /\ cur[p] \notin DOMAIN table_cache
                  /\ spc[q] = "table_name_query" => q = p
            /\ spc[p] = "column_query" =>
                  /\ cur[p] \notin DOMAIN column_cache
                  /\ spc[q] = "column_query" => q = p)
    /\ [][/\ \A t \in DOMAIN table_cache :
                t \in DOMAIN table_cache' /\ table_cache'[t] = table_cache[t]
          /\ \A t \in DOMAIN column_cache :
                t \in DOMAIN column_cache' /\ column_cache'[t] = column_cache[t]
          /\ \A p \in Procs :
                /\ (spc[p] = "table_name_query" /\ spc'[p] # spc[p])
                      => DOMAIN table_cache' = DOMAIN table_cache \cup {cur[p]}
                /\ (spc[p] # "table_name_query" \/ spc'[p] = spc[p])
                      => (\E q \in Procs : spc[q] = "table_name_query" /\ spc'[q] # spc[q])
                         \/ table_cache' = table_cache
                /\ (spc[p] = "column_query" /\ spc'[p] # spc[p])
                      => DOMAIN column_cache' = DOMAIN column_cache \cup {cur[p]}]_vars

\* two concurrent writes use the same table for the first time: one name
\* query failed, and both carry the cached fallback name
C18_Witness ==
    \E p, q \in Procs :
        /\ p # q
        /\ cur[p] # NoTable /\ cur[q] = cur[p]
        /\ tname[p] = LandingUnknownName(cur[p])
        /\ tname[q] = tname[p]
        /\ table_cache[cur[p]] = tname[p]
        /\ anomalies = 1

\* ------------------------------------------------------------------------
\* Claims about the row projection
\* ------------------------------------------------------------------------

\* C19: the record projected from a row that has one cell per resolved
\* column has exactly one entry per column, keyed by the upper-cased column
\* name, plus exactly the two synthetic fields, and its operation marker is
\* the one the call was made with (C, U or D).
C19_ProjectionShape ==
    (pobj # EmptyMap /\ Len(prow) = Len(pcolumns)) =>
        /\ \A i \in 1..Len(pcolumns) :
              /\ to_uppercase(pcolumns[i]) \in DOMAIN pobj
              /\ pobj[to_uppercase(pcolumns[i])] = cell_to_json_value(prow[i])
        /\ {"OPERATION", "SYNC_TIMESTAMP"} \subseteq DOMAIN pobj
        /\ Cardinality(DOMAIN pobj) = Len(pcolumns) + 2
        /\ pobj["OPERATION"] = [json |-> "string", s |-> poperation]
        /\ poperation \in {OperationOf("Insert"), OperationOf("Row"),
                           OperationOf("Update"), OperationOf("Delete")}

\* C20: a push with an empty event list returns success and changes
\* nothing: no queue is created, no entry appended, the counter not written;
\* a push with a non-empty list appends exactly one entry, holding the whole
\* batch, at the tail of the key's queue and leaves the other queues alone.
C20_PushEmptyIsNoOp ==
    [][dlqCalls'.push = dlqCalls.push + 1 =>
        LET k == last'.key
            events == last'.events
        IN  /\ last'.op = "push"
            /\ IF events = <<>>
               THEN /\ last'.ok
                    /\ queues' = queues
                    /\ metadata_ks' = metadata_ks
               ELSE /\ DOMAIN queues' = DOMAIN queues \cup {k}
                    /\ queues'[k] = Append(QueueOf(k), DlqEntry(events))
                    /\ \A k2 \in DOMAIN queues : k2 # k => queues'[k2] = queues[k2]]_vars

\* an empty push was made on a key that never had a queue, while another
\* key holds a batch: the key still has neither a queue nor a counter
C20_Witness ==
    /\ last.op = "push" /\ last.ok
    /\ last.events = <<>>
    /\ last.key \notin DOMAIN queues
    /\ CountKey(last.key[1], last.key[2]) \notin DOMAIN metadata_ks
    /\ \E k \in DOMAIN queues : Len(queues[k]) = 1

\* ------------------------------------------------------------------------
\* C21: the observers agree with the queues. In every reachable state, for
\* every destination d and table t, t is listed by get_pending_tables(d)
\* iff is_empty(d, t) is false iff the queue of (d, t) has at least one
\* entry; so a key whose queue was drained and still exists as an empty
\* queue is reported empty and not listed, and a table queued only for
\* another destination is not listed. The value an observer call handed to
\* its caller is the one the queues give.
\* ------------------------------------------------------------------------

DlqTables == {k[2] : k \in DlqKeys}

NonEmptyTables(d) == {t \in DlqTables : Len(QueueOf(make_key(d, t))) >= 1}

C21_ObserversAgree ==
    /\ \A d \in DlqDests, t \in DlqTables :
          /\ (t \in get_pending_tables(d)) <=> ~is_empty(d, t)
          /\ ~is_empty(d, t) <=> (Len(QueueOf(make_key(d, t))) >= 1)
    /\ \A d \in DlqDests : get_pending_tables(d) \subseteq DlqTables
    /\ last.op = "get_pending_tables" => last.value = NonEmptyTables(last.key[1])
    /\ last.op = "is_empty" =>
          (last.value <=> (Len(QueueOf(last.key)) = 0))

\* get_pending_tables(1) answered with no table while the queue of (1, "a")
\* exists drained and table "a" of destination 2 holds a batch
C21_Witness ==
    /\ last.op = "get_pending_tables"
    /\ last.key[1] = 1
    /\ last.value = {}
    /\ make_key(1, "a") \in DOMAIN queues
    /\ queues[make_key(1, "a")] = <<>>
    /\ delivered[make_key(1, "a")] # <<>>
    /\ Len(QueueOf(make_key(2, "a"))) >= 1

\* ------------------------------------------------------------------------
\* C23: error atomicity of the store. A push or pop_batch whose durable
\* counter write fails returns an error and leaves the in-memory queue of
\* its key exactly as it was before the call: a failing pop_batch removes
\* no entry, a failing push leaves no batch queued.
\* ------------------------------------------------------------------------

FailedWrite(call) == call.op \in {"push", "pop_batch"} /\ ~call.ok

C23_ErrorAtomicity ==
    [][(last' # last /\ FailedWrite(last'))
          => (IF last'.key \in DOMAIN queues' THEN queues'[last'.key] ELSE <<>>)
                 = QueueOf(last'.key)]_vars

\* ------------------------------------------------------------------------
\* C22: write_events groups by table. When a write_events call returns
\* Ok(()), each table with at least one forwardable event of the call
\* (insert, update, delete with pre-image) has received exactly one
\* insert_rows of that call, with records that are exactly the table's
\* forwardable events in their original relative order; a table without one
\* has received none, and non-DML events yield nothing. The insert_rows of
\* two tables of the call go to different remote tables (no record is
\* submitted under another table's channel), and every insert_rows carries
\* the token held for its own table.
\* ------------------------------------------------------------------------

\* the operation marker of a forwardable event
MarkerOf(kind) ==
    CASE kind = "Insert" -> "C"
      [] kind = "Update" -> "U"
      [] kind = "Delete" -> "D"

\* the markers of the forwardable events of table t in a call's events
ForwardedOf(events, t) ==
    LET own == SelectSeq(events, LAMBDA e :
                   e.table = t /\ e.kind \in {"Insert", "Update", "Delete"})
    IN  [i \in DOMAIN own |-> MarkerOf(own[i].kind)]

\* the insert_rows calls of call number c in a log
SubmitsOf(L, c) == SelectSeq(L, LAMBDA e : e.call = c /\ e.op = "submit")

C22_GroupsByTable ==
    [][/\ \A p \in Procs :
            (/\ scall[p].kind = "write_events"
             /\ spc[p] # "idle"
             /\ spc'[p] = "idle"
             /\ sresult'[scall[p].id] = "ok")
                => LET S == SubmitsOf(log', scall[p].id) IN
                   /\ \A t \in Tables :
                         LET want == ForwardedOf(scall[p].events, t)
                             mine == {i \in 1..Len(S) : S[i].table = t}
                         IN  /\ Cardinality(mine) = IF want = <<>> THEN 0 ELSE 1
                             /\ \A i \in mine : S[i].rows = want
                   /\ \A i, j \in 1..Len(S) :
                         S[i].table # S[j].table => S[i].name # S[j].name
       /\ (Len(log') = Len(log) + 1 /\ log'[Len(log')].op = "submit")
            => LET e == log'[Len(log')] IN
               /\ e.table \in DOMAIN current_token
               /\ e.tok = current_token[e.table]]_vars

\* ------------------------------------------------------------------------
\* C24: partial failure of write_events across tables. A failed
\* open_channel or insert_rows of a write_events call makes the call return
\* that error at that step. At that step nothing is rolled back: the log
\* keeps the batches the call submitted for the tables it had processed,
\* no token changes, and every token is still the one the last successful
\* remote call for its table returned. The call has made no remote call
\* for the tables it had not yet processed, and a call that has returned
\* makes no further remote call.
\* ------------------------------------------------------------------------

SinkErrors == {"err_open", "err_submit"}

\* the token the last successful remote call of log L for table t returned
LastReturned(L, t) ==
    LET T == SelectSeq(L, LAMBDA e : e.table = t /\ e.ok)
    IN  IF T = <<>> THEN EmptyToken ELSE T[Len(T)].ret

C24_PartialFailure ==
    [][/\ \A p \in Procs :
            (/\ scall[p].kind = "write_events"
             /\ spc[p] # "idle"
             /\ spc'[p] = "idle"
             /\ sresult'[scall[p].id] \in SinkErrors)
                => LET rest == DOMAIN groups[p] \ {cur[p]}
                       done == {t \in Tables :
                                   /\ ForwardedOf(scall[p].events, t) # <<>>
                                   /\ t \notin DOMAIN groups[p]}
                       mine == SelectSeq(log', LAMBDA e : e.call = scall[p].id)
                   IN  /\ Len(log') = Len(log) + 1
                       /\ SubSeq(log', 1, Len(log)) = log
                       /\ log'[Len(log')].call = scall[p].id
                       /\ log'[Len(log')].table = cur[p]
                       /\ ~log'[Len(log')].ok
                       /\ sresult'[scall[p].id] =
                             IF log'[Len(log')].op = "open" THEN "err_open"
                             ELSE "err_submit"
                       /\ current_token' = current_token
                       /\ \A t \in DOMAIN current_token' :
                             current_token'[t] = LastReturned(log', t)
                       /\ \A i \in 1..Len(mine) : mine[i].table \notin rest
                       /\ \A t \in done :
                             \E i \in 1..Len(mine) :
                                /\ mine[i].op = "submit" /\ mine[i].ok
                                /\ mine[i].table = t
                                /\ mine[i].rows = ForwardedOf(scall[p].events, t)
       /\ Len(log') = Len(log) + 1
            => LET e == log'[Len(log')] IN
               /\ sresult[e.call] = "running"
               /\ ~e.ok => sresult'[e.call] \in SinkErrors]_vars

\* a write_events call that covered two tables submitted its batch for one
\* of them, failed at the other and returned the error
C24_Witness ==
    \E i, j \in 1..Len(log) :
        /\ i < j
        /\ log[i].call = log[j].call
        /\ log[i].table # log[j].table
        /\ log[i].op = "submit" /\ log[i].ok
        /\ ~log[j].ok
        /\ sresult[log[j].call] \in SinkErrors
        /\ log[i].table \in DOMAIN current_token
        /\ current_token[log[i].table] = LastReturned(log, log[i].table)
        /\ ~IsEmpty(current_token[log[i].table])

\* ------------------------------------------------------------------------
\* C26: empty and truncate calls leave the sink untouched. A call either
\* returns Ok(()) at the step it is made, and then no cache entry, token,
\* lock or caller position changes and no remote call is logged, or it goes
\* on into the per-table section, and then it is a write_table_rows with at
\* least one row or a write_events with at least one DML event. So
\* truncate_table, write_table_rows with no rows and write_events with no
\* events are all of the first kind.
\* ------------------------------------------------------------------------

C26_EmptyCallsNoEffect ==
    [][Len(sresult') = Len(sresult) + 1
          => /\ UNCHANGED <<table_cache, column_cache, current_token, locks,
                            log, issued, anomalies, tname, cols, sentTok>>
             /\ \/ /\ sresult' = Append(sresult, "ok")
                   /\ UNCHANGED <<spc, scall, groups, cur>>
                \/ /\ sresult' = Append(sresult, "running")
                   /\ \E p \in Procs :
                         /\ scall[p] = NoCall
                         /\ scall'[p].id = Len(sresult')
                         /\ scall'[p].kind \in {"write_table_rows", "write_events"}
                         /\ \E i \in DOMAIN scall'[p].events :
                               scall'[p].events[i].kind \in DmlKinds \cup SinkRows
                         /\ spc'[p] = "table_cache"]_vars

\* two calls have returned Ok(()) and the sink holds no cache entry, no
\* token and no remote call
C26_Witness ==
    /\ sresult = <<"ok", "ok">>
    /\ table_cache = EmptyMap
    /\ column_cache = EmptyMap
    /\ current_token = EmptyMap
    /\ log = <<>>
    /\ \A p \in Procs : spc[p] = "idle"

\* ------------------------------------------------------------------------
\* C25: the sink is free of deadlock. With concurrent truncate_table,
\* write_table_rows and write_events calls on one instance, every call that
\* is made eventually returns, provided every catalog query and remote call
\* returns: again and again no call is running, which a call that never
\* returned would rule out. The locks are taken in one order: a caller waiting for a cache
\* lock or for the client holds no lock, a caller waiting for the token map
\* holds the client only, a catalog query runs under its cache lock alone
\* and a remote call under client and token map; a caller that is not in a
\* call holds no lock, whichever way its call ended.
\* ------------------------------------------------------------------------

\* the locks caller p holds
HeldBy(p) == {l \in LockNames : locks[l] = p}

\* the locks a caller holds at each position of a call
HeldAt(pos) ==
    CASE pos = "table_name_query" -> {"table_cache"}
      [] pos = "column_query" -> {"column_cache"}
      [] pos = "current_token_lock" -> {"client"}
      [] pos \in {"open_channel", "insert_rows"} -> {"client", "current_token"}
      [] OTHER -> {}

C25_SinkDeadlockFree ==
    /\ [](\A p \in Procs : HeldBy(p) = HeldAt(spc[p]))
    /\ []<>(\A n \in 1..Len(sresult) : sresult[n] # "running")

\* two calls overlapped (the later call's remote call came first), one of
\* them returned an error, both have returned and every lock is free
C25_Witness ==
    /\ Len(sresult) = 2
    /\ \A n \in 1..2 : sresult[n] # "running"
    /\ \E n \in 1..2 : sresult[n] \in SinkErrors
    /\ \A l \in LockNames : locks[l] = NoProc
    /\ \E i, j \in 1..Len(log) : i < j /\ log[i].call = 2 /\ log[j].call = 1

====
